---- MODULE Spec2Model ----
(***************************************************************************)
(* FHIRSnapshotGenerator (src/src/snapshot-generator.ts): generateSnapshot *)
(* merges the differential elements of a StructureDefinition onto the base *)
(* elements of its resource type and returns a snapshot document.          *)
(*                                                                         *)
(* JavaScript values are tagged tuples; a JavaScript string is a sequence  *)
(* of one-character strings, so that split('.'), the regular expression    *)
(* and the two string orders are computed character by character.  An      *)
(* object is a function whose DOMAIN is Object.keys of the object.  Element*)
(* objects live in a heap and are referred to by address, so that aliasing *)
(* and mutation are visible.                                               *)
(***************************************************************************)
EXTENDS Integers, Sequences, FiniteSets, TLC

VARIABLES repo, heap, pc, calls, input, structureDefinition, resourceType,
          baseElements, baseAtLoad, snapshotElements, idx, lookups, lastStep,
          outcome, completed

vars == <<repo, heap, pc, calls, input, structureDefinition, resourceType,
          baseElements, baseAtLoad, snapshotElements, idx, lookups, lastStep,
          outcome, completed>>

-----------------------------------------------------------------------------
(* Bounds of the model *)

MaxBase == 2
MaxDiff == 2
MaxCalls == 2

-----------------------------------------------------------------------------
(* JavaScript values *)

Undefined == <<"undefined">>
Str(s) == <<"string", s>>
Num(n) == <<"number", n>>
Obj(o) == <<"object", o>>
Arr(a) == <<"array", a>>

EmptyObject == [k \in {} |-> Undefined]

\* o[k] in JavaScript: undefined when the key is absent
Get(o, k) == IF k \in DOMAIN o THEN o[k] ELSE Undefined

\* o?.k on a value that may be undefined
OptGet(v, k) == IF v = Undefined THEN Undefined ELSE Get(v[2], k)

\* ToBoolean
Truthy(v) ==
    CASE v[1] = "undefined" -> FALSE
      [] v[1] = "string" -> Len(v[2]) > 0
      [] v[1] = "number" -> v[2] # 0
      [] OTHER -> TRUE

\* a ?? b
Coalesce(a, b) == IF a = Undefined THEN b ELSE a

\* o with o[k] = v (assignment to a property, creating the key when absent)
Put(o, k, v) == [x \in DOMAIN o \cup {k} |-> IF x = k THEN v ELSE o[x]]

\* o without the key k (delete o.k)
Delete(o, k) == [x \in DOMAIN o \ {k} |-> o[x]]

RECURSIVE JSONClone(_)
\* JSON.parse(JSON.stringify(v)): a fresh value; keys whose value is
\* undefined are dropped, nested objects are cloned the same way
JSONClone(v) ==
    IF v[1] = "object"
    THEN LET o == v[2]
             keep == {k \in DOMAIN o : o[k] # Undefined}
         IN Obj([k \in keep |-> JSONClone(o[k])])
    ELSE v

\* the clone of an element object (the top level of JSONClone)
CloneElement(e) == JSONClone(Obj(e))[2]

-----------------------------------------------------------------------------
(* Strings *)

Upper == <<"A","B","C","D","E","F","G","H","I","J","K","L","M",
           "N","O","P","Q","R","S","T","U","V","W","X","Y","Z">>
Lower == <<"a","b","c","d","e","f","g","h","i","j","k","l","m",
           "n","o","p","q","r","s","t","u","v","w","x","y","z">>
Digit == <<"0","1","2","3","4","5","6","7","8","9">>

\* the position of the character c in the alphabet s, 0 when it is not there
IndexOf(s, c) ==
    IF \E i \in 1..Len(s) : s[i] = c
    THEN CHOOSE i \in 1..Len(s) : s[i] = c
    ELSE 0

Punctuation == {"*", "-", ".", "/", ":", "_"}

Chars == {Upper[i] : i \in 1..26} \cup {Lower[i] : i \in 1..26}
         \cup {Digit[i] : i \in 1..10} \cup Punctuation

\* UTF-16 code unit of an ASCII character
CodeUnit ==
    [c \in Chars |->
        CASE IndexOf(Upper, c) > 0 -> 64 + IndexOf(Upper, c)
          [] IndexOf(Lower, c) > 0 -> 96 + IndexOf(Lower, c)
          [] IndexOf(Digit, c) > 0 -> 47 + IndexOf(Digit, c)
          [] c = "*" -> 42
          [] c = "-" -> 45
          [] c = "." -> 46
          [] c = "/" -> 47
          [] c = ":" -> 58
          [] c = "_" -> 95]

\* \w of a regular expression
IsWordChar(c) ==
    \/ IndexOf(Upper, c) > 0
    \/ IndexOf(Lower, c) > 0
    \/ IndexOf(Digit, c) > 0
    \/ c = "_"

\* number of occurrences of the character c in s
RECURSIVE Count(_, _)
Count(s, c) ==
    IF s = <<>> THEN 0
    ELSE (IF Head(s) = c THEN 1 ELSE 0) + Count(Tail(s), c)

\* path.split('.').length
Depth(path) == Count(path, ".") + 1

RECURSIVE LexLess(_, _)
\* lexicographic order of two sequences of integers; a proper prefix is less
LexLess(a, b) ==
    IF b = <<>> THEN FALSE
    ELSE IF a = <<>> THEN TRUE
    ELSE IF Head(a) # Head(b) THEN Head(a) < Head(b)
    ELSE LexLess(Tail(a), Tail(b))

\* the code units of a string
CodeUnits(s) == [i \in 1..Len(s) |-> CodeUnit[s[i]]]

\* a < b on JavaScript strings: by UTF-16 code units
CodeUnitLess(a, b) == LexLess(CodeUnits(a), CodeUnits(b))

\* collation weights of String.prototype.localeCompare (root collation):
\* punctuation before digits before letters, letters by alphabet
Primary ==
    [c \in Chars |->
        CASE IndexOf(Upper, c) > 0 -> 40 + IndexOf(Upper, c)
          [] IndexOf(Lower, c) > 0 -> 40 + IndexOf(Lower, c)
          [] IndexOf(Digit, c) > 0 -> 20 + IndexOf(Digit, c)
          [] c = "_" -> 1
          [] c = "-" -> 2
          [] c = ":" -> 3
          [] c = "." -> 4
          [] c = "*" -> 5
          [] c = "/" -> 6]

\* lower case before upper case when the letters are the same
Tertiary == [c \in Chars |-> IF IndexOf(Upper, c) > 0 THEN 1 ELSE 0]

Primaries(s) == [i \in 1..Len(s) |-> Primary[s[i]]]
Tertiaries(s) == [i \in 1..Len(s) |-> Tertiary[s[i]]]

\* a.localeCompare(b): negative, zero or positive
localeCompare(a, b) ==
    IF LexLess(Primaries(a), Primaries(b)) THEN -1
    ELSE IF LexLess(Primaries(b), Primaries(a)) THEN 1
    ELSE IF LexLess(Tertiaries(a), Tertiaries(b)) THEN -1
    ELSE IF LexLess(Tertiaries(b), Tertiaries(a)) THEN 1
    ELSE 0

-----------------------------------------------------------------------------
(* The pure parts of FHIRSnapshotGenerator *)

\* the literal "StructureDefinition/" of the regular expression
Marker == <<"S","t","r","u","c","t","u","r","e","D","e","f","i","n","i","t","i","o","n","/">>

DomainResource == <<"D","o","m","a","i","n","R","e","s","o","u","r","c","e">>

\* the positions at which /StructureDefinition\/(\w+)$/ matches s
MatchPositions(s) ==
    {i \in 1..Len(s) :
        /\ i + Len(Marker) <= Len(s)
        /\ SubSeq(s, i, i + Len(Marker) - 1) = Marker
        /\ \A j \in (i + Len(Marker))..Len(s) : IsWordChar(s[j])}

\* an extraction by /StructureDefinition\/(\w+)/, without the anchor $: the
\* word characters that follow the first occurrence of the literal
extractUnanchored(baseDefinition) ==
    LET at == {i \in 1..Len(baseDefinition) :
                  /\ i + Len(Marker) <= Len(baseDefinition)
                  /\ SubSeq(baseDefinition, i, i + Len(Marker) - 1) = Marker
                  /\ IsWordChar(baseDefinition[i + Len(Marker)])}
    IN IF at = {} THEN DomainResource
       ELSE LET i == CHOOSE k \in at : \A m \in at : k <= m
                from == i + Len(Marker)
                to == CHOOSE e \in from..Len(baseDefinition) :
                         /\ \A j \in from..e : IsWordChar(baseDefinition[j])
                         /\ e = Len(baseDefinition) \/ ~IsWordChar(baseDefinition[e + 1])
            IN SubSeq(baseDefinition, from, to)

\* extractResourceType: the capture group of the leftmost match, or the default
extractResourceType(baseDefinition) ==
    LET at == MatchPositions(baseDefinition)
    IN IF at = {} THEN DomainResource
       ELSE LET i == CHOOSE k \in at : \A m \in at : k <= m
            IN SubSeq(baseDefinition, i + Len(Marker), Len(baseDefinition))

\* the file StructureDefinition-<resourceType>.json of the core package
FileOf(fs, rt) ==
    IF rt \in DOMAIN fs THEN fs[rt]
    ELSE [exists |-> FALSE, parses |-> FALSE, json |-> EmptyObject]

\* a load that reads whatever file the package holds, not the file named
\* after the resource type
loadAnyFile(fs, rt) ==
    IF DOMAIN fs = {} THEN <<>>
    ELSE LET file == fs[CHOOSE k \in DOMAIN fs : TRUE]
             element == OptGet(Get(file.json, "snapshot"), "element")
         IN IF file.exists /\ file.parses /\ Truthy(element) THEN element[2] ELSE <<>>

\* loadBaseStructureDefinition: the snapshot elements of the file, or [] when
\* the file is missing, reading it throws, or it has no snapshot.element
loadBaseStructureDefinition(fs, rt) ==
    LET file == FileOf(fs, rt)
    IN IF ~file.exists THEN <<>>
       ELSE IF ~file.parses THEN <<>>
       ELSE LET element == OptGet(Get(file.json, "snapshot"), "element")
            IN IF Truthy(element) THEN element[2] ELSE <<>>

\* a check of the length alone
BaseNonEmpty(resourceElements, rt) == Len(resourceElements) > 0

\* the condition under which getBaseElements returns instead of throwing
BaseFound(resourceElements, rt) ==
    /\ Len(resourceElements) > 0
    /\ Get(resourceElements[1], "path") = Str(rt)

\* a check that takes an empty element list for a missing one
HasNonEmptyDifferentialElement(doc) ==
    LET element == OptGet(Get(doc, "differential"), "element")
    IN Truthy(element) /\ element[1] = "array" /\ Len(element[2]) > 0

\* a check of the differential alone, not of its element list
HasDifferential(doc) == Truthy(Get(doc, "differential"))

\* the check at the head of generateSnapshot
HasDifferentialElement(doc) ==
    Truthy(OptGet(Get(doc, "differential"), "element"))

\* a search that returns the last position that satisfies the test
LastIndex(hits) ==
    IF \E i \in 1..Len(hits) : hits[i]
    THEN CHOOSE i \in 1..Len(hits) : hits[i] /\ \A j \in (i + 1)..Len(hits) : ~hits[j]
    ELSE 0

\* Array.prototype.find over a list whose i-th element satisfies the test
\* iff hits[i]: the first position that does, or 0 when there is none
FirstIndex(hits) ==
    IF \E i \in 1..Len(hits) : hits[i]
    THEN CHOOSE i \in 1..Len(hits) : hits[i] /\ \A j \in 1..(i - 1) : ~hits[j]
    ELSE 0

\* the element found by id: el.id === elementId
FindById(h, list, diffElement) ==
    LET i == FirstIndex([k \in 1..Len(list) |->
                 Get(h[list[k]], "id") = Get(diffElement, "id")])
    IN IF i = 0 THEN 0 ELSE list[i]

\* the element found by path: el.path === path && !diffElement.sliceName
FindByPath(h, list, diffElement) ==
    LET i == FirstIndex([k \in 1..Len(list) |->
                 /\ Get(h[list[k]], "path") = Get(diffElement, "path")
                 /\ ~Truthy(Get(diffElement, "sliceName"))])
    IN IF i = 0 THEN 0 ELSE list[i]

\* a lookup among the copies of the base elements only, which leaves out
\* the elements pushed since
ExistingAmongBase(h, list, diffElement) ==
    LET copies == SubSeq(list, 1, Len(baseElements))
        byId == FindById(h, copies, diffElement)
    IN IF byId # 0 THEN byId ELSE FindByPath(h, copies, diffElement)

\* existingElement: by id first, then by path; 0 when there is none
ExistingElement(h, list, diffElement) ==
    LET byId == FindById(h, list, diffElement)
    IN IF byId # 0 THEN byId ELSE FindByPath(h, list, diffElement)

\* whether mergeElementDefinition assigns the key of diffElement
Assigns(diffElement, key) ==
    IF key = "id" \/ key = "path" THEN TRUE
    ELSE IF key = "type" /\ Truthy(diffElement[key]) THEN TRUE
    ELSE IF key = "binding" /\ Truthy(diffElement[key]) THEN TRUE
    ELSE IF key = "slicing" /\ Truthy(diffElement[key]) THEN TRUE
    ELSE IF key = "extension" /\ Truthy(diffElement[key]) THEN TRUE
    ELSE diffElement[key] # Undefined

\* a merge that appends the entries of an array of the differential element
\* to the array the base element has under the same key
mergeAppending(baseElement, diffElement) ==
    LET assigned == {k \in DOMAIN diffElement : Assigns(diffElement, k)}
    IN [k \in DOMAIN baseElement \cup assigned |->
          IF k \notin assigned THEN baseElement[k]
          ELSE IF k \in DOMAIN baseElement /\ baseElement[k][1] = "array"
                  /\ diffElement[k][1] = "array"
               THEN Arr(baseElement[k][2] \o diffElement[k][2])
               ELSE diffElement[k]]

\* a merge that replaces the base element's fields by those assigned
mergeReplacing(baseElement, diffElement) ==
    LET assigned == {k \in DOMAIN diffElement : Assigns(diffElement, k)}
    IN [k \in assigned |-> diffElement[k]]

\* a merge that overwrites only the fields the base element already has
mergeExistingFieldsOnly(baseElement, diffElement) ==
    [k \in DOMAIN baseElement |->
        IF k \in DOMAIN diffElement /\ Assigns(diffElement, k)
        THEN diffElement[k] ELSE baseElement[k]]

\* mergeElementDefinition: baseElement after the assignments
mergeElementDefinition(baseElement, diffElement) ==
    LET assigned == {k \in DOMAIN diffElement : Assigns(diffElement, k)}
    IN [k \in DOMAIN baseElement \cup assigned |->
          IF k \in assigned THEN diffElement[k] ELSE baseElement[k]]

\* a base record that repeats the element's path and takes fixed cardinality
SynthesizedBaseFixed(path, newElement) ==
    Obj([path |-> path, min |-> Num(0), max |-> Str(<<"*">>)])

\* the base record given to a new element that has none
SynthesizedBase(path, newElement) ==
    Obj([path |-> path,
         min |-> Coalesce(Get(newElement, "min"), Num(0)),
         max |-> Coalesce(Get(newElement, "max"), Str(<<"*">>))])

\* a new element that is the copy of the differential element and no more
NewElementCopyOnly(diffElement) == CloneElement(diffElement)

\* the new element built from a differential element that matched nothing
NewElement(diffElement) ==
    LET newElement == CloneElement(diffElement)
    IN IF ~Truthy(Get(newElement, "base"))
       THEN Put(newElement, "base",
                SynthesizedBase(Get(diffElement, "path"), newElement))
       ELSE newElement

\* the path string of the object at address a
PathOf(h, a) == h[a]["path"][2]

\* the comparator given to Array.prototype.sort
Compare(h, a, b) ==
    LET aDepth == Depth(PathOf(h, a))
        bDepth == Depth(PathOf(h, b))
    IN IF aDepth # bDepth THEN aDepth - bDepth
       ELSE localeCompare(PathOf(h, a), PathOf(h, b))

RECURSIVE InsertSorted(_, _, _)
\* x placed into sorted behind every element that does not sort after it;
\* after holds the pairs <<y, x>> with "y sorts after x"
InsertSorted(sorted, x, after) ==
    IF sorted = <<>> THEN <<x>>
    ELSE IF <<Head(sorted), x>> \in after THEN <<x>> \o sorted
    ELSE <<Head(sorted)>> \o InsertSorted(Tail(sorted), x, after)

RECURSIVE SortInto(_, _, _)
SortInto(sorted, rest, after) ==
    IF rest = <<>> THEN sorted
    ELSE SortInto(InsertSorted(sorted, Head(rest), after), Tail(rest), after)

RECURSIVE InsertBeforeTies(_, _, _)
\* x placed into sorted in front of the first element it does not sort after
InsertBeforeTies(sorted, x, after) ==
    IF sorted = <<>> THEN <<x>>
    ELSE IF <<x, Head(sorted)>> \notin after THEN <<x>> \o sorted
    ELSE <<Head(sorted)>> \o InsertBeforeTies(Tail(sorted), x, after)

RECURSIVE SortIntoBeforeTies(_, _, _)
SortIntoBeforeTies(sorted, rest, after) ==
    IF rest = <<>> THEN sorted
    ELSE SortIntoBeforeTies(InsertBeforeTies(sorted, Head(rest), after),
                            Tail(rest), after)

\* a sort that puts elements that tie in the reverse of the order they had
ReversingSort(list, after) == SortIntoBeforeTies(<<>>, list, after)

\* a stable sort of list, after holding the pairs <<y, x>> for which the
\* comparator puts y after x: elements that tie keep the order they had
StableSort(list, after) == SortInto(<<>>, list, after)

\* the pairs of members of a list
Pairs(list) == {list[i] : i \in 1..Len(list)} \X {list[i] : i \in 1..Len(list)}

\* snapshotElements.sort(comparator): by depth, then by localeCompare
SortByDepth(h, list) ==
    StableSort(list, {p \in Pairs(list) : Compare(h, p[1], p[2]) > 0})

\* an ordering by path that reverses the elements whose paths are equal
orderByReversing(h, list) ==
    ReversingSort(list, {p \in Pairs(list) : CodeUnitLess(PathOf(h, p[2]), PathOf(h, p[1]))})

\* orderBy(snapshotElements, ['path'], ['asc']) of lodash: a stable sort by
\* the path string under < and > on strings
orderBy(h, list) ==
    StableSort(list, {p \in Pairs(list) : CodeUnitLess(PathOf(h, p[2]), PathOf(h, p[1]))})

\* the element list of the document returned by the generator of the command
\* line (snapshotGenerator.ts): snapshotElements after the sort, with no
\* orderBy
CliFinalElements(h, list) == SortByDepth(h, list)

\* an element list read back from a map keyed by path: of the elements with
\* one path only the last is kept
FinalElementsByPath(h, list) ==
    LET last == {i \in 1..Len(list) :
                    \A j \in (i + 1)..Len(list) : PathOf(h, list[j]) # PathOf(h, list[i])}
        kept == SelectSeq(list, LAMBDA a : \E i \in last : list[i] = a)
    IN orderBy(h, SortByDepth(h, kept))

\* the element list of the returned document
FinalElements(h, list) == orderBy(h, SortByDepth(h, list))

\* a returned document that holds the snapshot and nothing else
ResultDocumentSnapshotOnly(doc, elements) ==
    [k \in {"snapshot"} |-> Obj([element |-> Arr(elements)])]

\* the returned document with the differential left in place
ResultDocumentKeepingDifferential(doc, elements) ==
    Put(doc, "snapshot", Obj([element |-> Arr(elements)]))

\* the returned document: the input's fields, snapshot attached,
\* differential deleted
ResultDocument(doc, elements) ==
    Delete(Put(doc, "snapshot", Obj([element |-> Arr(elements)])),
           "differential")

-----------------------------------------------------------------------------
(* Inputs: the files of the core package and the documents given to
   generateSnapshot *)

P == <<"P">>
P_a == <<"P", ".", "a">>
P_B == <<"P", ".", "B">>
P_B_a == <<"P", ".", "B", ".", "a">>
P_a_s == <<"P", ".", "a", ":", "s">>

Star == Str(<<"*">>)
One == Str(<<"1">>)

BaseRecord(path, min, max) == Obj([path |-> Str(path), min |-> Num(min), max |-> max])

\* elements of a base definition (parsed JSON: no undefined values)
BaseRoot == [id |-> Str(P), path |-> Str(P), min |-> Num(0), max |-> Star]
BaseRootNoId == [path |-> Str(P), min |-> Num(0), max |-> Star]
BaseA == [id |-> Str(P_a), path |-> Str(P_a), min |-> Num(0), max |-> Star,
          short |-> Str(<<"a">>), type |-> Arr(<<Str(<<"T">>)>>),
          base |-> BaseRecord(P_a, 0, Star)]
BaseBNoId == [path |-> Str(P_B), min |-> Num(0), max |-> One]

BaseElems == {BaseRoot, BaseRootNoId, BaseA, BaseBNoId}

\* elements of a differential
DiffUpdate == [id |-> Str(P_a), path |-> Str(P_a), min |-> Num(1), max |-> One,
               short |-> Str(<<"x">>)]
DiffNoId == [path |-> Str(P_a), min |-> Num(1), max |-> One]
DiffSlice == [path |-> Str(P_a), sliceName |-> Str(<<"s">>), min |-> Num(1),
              max |-> Star]
DiffSliceId == [id |-> Str(P_a_s), path |-> Str(P_a), sliceName |-> Str(<<"s">>),
                max |-> One]
DiffDeep == [id |-> Str(P_B_a), path |-> Str(P_B_a), min |-> Num(1)]
DiffWithBase == [id |-> Str(P_B), path |-> Str(P_B), min |-> Num(1), max |-> One,
                 type |-> Arr(<<Str(<<"U">>)>>), base |-> BaseRecord(P_B, 0, Star)]
DiffUndefined == [id |-> Undefined, path |-> Str(P_a), short |-> Undefined,
                  min |-> Num(2), max |-> One]
DiffRename == [id |-> Str(P), path |-> Str(P_B), min |-> Num(0), max |-> Star]

DiffElems == {DiffUpdate, DiffNoId, DiffSlice, DiffSliceId, DiffDeep,
              DiffWithBase, DiffUndefined, DiffRename}

\* the sequences over S of length at most n
SeqsUpTo(S, n) == UNION {[1..k -> S] : k \in 0..n}

\* a file of the core package
FileOk(list) ==
    [exists |-> TRUE, parses |-> TRUE,
     json |-> [name |-> Str(<<"b">>), snapshot |-> Obj([element |-> Arr(list)])]]
FileNoSnapshot ==
    [exists |-> TRUE, parses |-> TRUE, json |-> [name |-> Str(<<"b">>)]]
FileUnreadable ==
    [exists |-> TRUE, parses |-> FALSE, json |-> EmptyObject]

DomainRoot == [id |-> Str(DomainResource), path |-> Str(DomainResource),
               min |-> Num(0), max |-> Star]

\* the package holds at most one file
Repos ==
    {EmptyObject}
    \cup {[rt \in {P} |-> f] :
            f \in {FileNoSnapshot, FileUnreadable}
                  \cup {FileOk(l) : l \in SeqsUpTo(BaseElems, MaxBase)}}
    \cup {[rt \in {DomainResource} |-> FileOk(<<DomainRoot>>)]}

UrlP == <<"h", "/">> \o Marker \o P
UrlB == Marker \o <<"B">>
UrlDash == Marker \o <<"P", "-", "a">>
UrlNone == <<"u", "r", "n", ":", "x">>

Document(url) == [name |-> Str(<<"n">>), baseDefinition |-> Str(url)]

WithDifferential(doc, list) ==
    Put(doc, "differential", Obj([element |-> Arr(list)]))

\* the documents given to generateSnapshot; the elements of differential.element
\* are written as values and are allocated when the call is made
Documents ==
    {WithDifferential(Document(UrlP), l) : l \in SeqsUpTo(DiffElems, MaxDiff)}
    \cup {WithDifferential(Document(u), <<DiffUpdate>>) : u \in {UrlB, UrlDash, UrlNone}}
    \cup {Document(u) : u \in {UrlP, UrlNone}}
    \cup {Put(Document(UrlP), "differential", Obj(EmptyObject)),
          Put(Document(UrlP), "differential", Undefined),
          Put(WithDifferential(Document(UrlP), <<DiffUpdate>>), "snapshot",
              Obj([element |-> Arr(<<>>)])),
          Put(Document(UrlP), "snapshot", Obj([element |-> Arr(<<>>)]))}

-----------------------------------------------------------------------------
(* State *)

NoError == [kind |-> "none", resourceType |-> <<>>]
NoOutcome == [status |-> "none", value |-> EmptyObject, error |-> NoError]
NoStep == [kind |-> "none", diff |-> EmptyObject, target |-> 0,
           listBefore |-> <<>>, heapBefore |-> <<>>]

\* the addresses given to n objects allocated on the heap h
Fresh(h, n) == [i \in 1..n |-> Len(h) + i]

\* the objects at the addresses of list
Deref(h, list) == [i \in 1..Len(list) |-> h[list[i]]]

\* the differential elements of a document (addresses or values), [] if none
DifferentialElements(doc) ==
    LET element == OptGet(Get(doc, "differential"), "element")
    IN IF element = Undefined THEN <<>> ELSE element[2]

\* the document as the caller holds it: differential.element refers to its
\* element objects by address
Allocated(h, d) ==
    IF HasDifferentialElement(d)
    THEN WithDifferential(d, Fresh(h, Len(DifferentialElements(d))))
    ELSE d

Init ==
    /\ repo \in Repos
    /\ heap = <<>>
    /\ pc = "idle"
    /\ calls = 0
    /\ input = EmptyObject
    /\ structureDefinition = EmptyObject
    /\ resourceType = <<>>
    /\ baseElements = <<>>
    /\ baseAtLoad = <<>>
    /\ snapshotElements = <<>>
    /\ idx = 0
    /\ lookups = 0
    /\ lastStep = NoStep
    /\ outcome = NoOutcome
    /\ completed = <<>>

\* the documents the next call may be given: any document at first, then
\* documents structurally identical to the first
CallDocuments == IF calls = 0 THEN Documents ELSE {input}

\* a call may be made when none is running
CanCall(d) ==
    /\ pc \in {"idle", "returned", "thrown"}
    /\ calls < MaxCalls

\* the record of a finished call: what it was given, how it ended, the
\* returned element objects (refs) and their values at the return
Finished(d, out, refs, elements) ==
    [input |-> d, status |-> out.status, error |-> out.error, refs |-> refs,
     elements |-> elements]

\* generateSnapshot, lines 145-147: the document has no differential.element
MissingDifferential(d) ==
    /\ CanCall(d)
    /\ ~HasDifferentialElement(d)
    /\ LET out == [status |-> "thrown", value |-> EmptyObject,
                   error |-> [kind |-> "MissingDifferential", resourceType |-> <<>>]]
       IN /\ outcome' = out
          /\ completed' = Append(completed, Finished(d, out, <<>>, <<>>))
    /\ pc' = "thrown"
    /\ calls' = calls + 1
    /\ input' = d
    /\ structureDefinition' = d
    /\ lookups' = 0
    /\ resourceType' = <<>>
    /\ baseElements' = <<>>
    /\ baseAtLoad' = <<>>
    /\ snapshotElements' = <<>>
    /\ idx' = 0
    /\ lastStep' = NoStep
    /\ UNCHANGED <<repo, heap>>

\* generateSnapshot, lines 150-154 with getBaseElements throwing
BaseDefinitionNotFound(d) ==
    /\ CanCall(d)
    /\ HasDifferentialElement(d)
    /\ LET rt == extractResourceType(d.baseDefinition[2])
           resourceElements == loadBaseStructureDefinition(repo, rt)
           out == [status |-> "thrown", value |-> EmptyObject,
                   error |-> [kind |-> "BaseDefinitionNotFound", resourceType |-> rt]]
       IN /\ ~BaseFound(resourceElements, rt)
          /\ resourceType' = rt
          /\ outcome' = out
          /\ completed' = Append(completed, Finished(d, out, <<>>, <<>>))
          /\ structureDefinition' = Allocated(heap, d)
          /\ heap' = heap \o DifferentialElements(d)
    /\ pc' = "thrown"
    /\ calls' = calls + 1
    /\ input' = d
    /\ lookups' = 1
    /\ baseElements' = <<>>
    /\ baseAtLoad' = <<>>
    /\ snapshotElements' = <<>>
    /\ idx' = 0
    /\ lastStep' = NoStep
    /\ UNCHANGED repo

\* a working list made once and used again by every later call
WorkingListCached(copies) ==
    IF snapshotElements = <<>> THEN copies ELSE snapshotElements

\* a working list kept from the previous call and added to
WorkingListKept(copies) == snapshotElements \o copies

\* the working list at the start of the merge: the deep copies alone
WorkingList(copies) == copies

\* a working list that holds the base element objects themselves
ShallowCopyAddresses(h, base) == base

\* the addresses of the copy of the base elements: JSON.parse(JSON.stringify())
\* allocates a fresh object for every element
DeepCopyAddresses(h, base) == Fresh(h, Len(base))

\* generateSnapshot, lines 145-161: the base elements are found and copied
BeginMerge(d) ==
    /\ CanCall(d)
    /\ HasDifferentialElement(d)
    /\ LET rt == extractResourceType(d.baseDefinition[2])
           resourceElements == loadBaseStructureDefinition(repo, rt)
           h1 == heap \o DifferentialElements(d)
           base == Fresh(h1, Len(resourceElements))
           h2 == h1 \o resourceElements
           copies == DeepCopyAddresses(h2, base)
           h3 == h2 \o [i \in 1..Len(base) |-> CloneElement(h2[base[i]])]
       IN /\ BaseFound(resourceElements, rt)
          /\ resourceType' = rt
          /\ structureDefinition' = Allocated(heap, d)
          /\ baseElements' = base
          /\ baseAtLoad' = resourceElements
          /\ snapshotElements' = WorkingList(copies)
          /\ heap' = h3
    /\ pc' = "merging"
    /\ calls' = calls + 1
    /\ input' = d
    /\ lookups' = 1
    /\ idx' = 1
    /\ lastStep' = NoStep
    /\ outcome' = NoOutcome
    /\ UNCHANGED <<repo, completed>>

\* the differential element handled by the next pass of the forEach
CurrentDiff == heap[DifferentialElements(structureDefinition)[idx]]

InLoop ==
    /\ pc = "merging"
    /\ idx <= Len(DifferentialElements(structureDefinition))

\* lines 175-177: an existing element was found and is merged into
UpdateElement ==
    /\ InLoop
    /\ LET diffElement == CurrentDiff
           existingElement == ExistingElement(heap, snapshotElements, diffElement)
       IN /\ existingElement # 0
          /\ heap' = [heap EXCEPT ![existingElement] =
                         mergeElementDefinition(heap[existingElement], diffElement)]
          /\ lastStep' = [kind |-> "update", diff |-> diffElement,
                          target |-> existingElement,
                          listBefore |-> snapshotElements, heapBefore |-> heap]
    /\ idx' = idx + 1
    /\ UNCHANGED <<repo, pc, calls, input, structureDefinition, resourceType,
                   baseElements, baseAtLoad, snapshotElements, lookups,
                   outcome, completed>>

\* the address of the differential element handled by the next pass
CurrentDiffAddress == DifferentialElements(structureDefinition)[idx]

\* a new element that is the differential element object itself
SameObjectAddress(h, diffAddress) == diffAddress

\* the address of newElement: JSON.parse(JSON.stringify(diffElement)) is a
\* fresh object
NewElementAddress(h, diffAddress) == Len(h) + 1

\* lines 178-193: no element was found and a new one is pushed
SynthesizeElement ==
    /\ InLoop
    /\ LET diffElement == CurrentDiff
           existingElement == ExistingElement(heap, snapshotElements, diffElement)
           newElement == NewElementAddress(heap, CurrentDiffAddress)
       IN /\ existingElement = 0
          /\ heap' = [a \in DOMAIN heap \cup {newElement} |->
                         IF a = newElement THEN NewElement(diffElement) ELSE heap[a]]
          /\ snapshotElements' = Append(snapshotElements, newElement)
          /\ lastStep' = [kind |-> "synthesize", diff |-> diffElement,
                          target |-> newElement,
                          listBefore |-> snapshotElements, heapBefore |-> heap]
    /\ idx' = idx + 1
    /\ UNCHANGED <<repo, pc, calls, input, structureDefinition, resourceType,
                   baseElements, baseAtLoad, lookups, outcome, completed>>

\* a loop that is left after its first pass
LoopDoneAfterFirst == idx > 1

\* the forEach has handled every element of differential.element
LoopDone == idx > Len(DifferentialElements(structureDefinition))

\* lines 196-222: the working list is sorted, ordered and returned
ReturnSnapshot ==
    /\ pc = "merging"
    /\ LoopDone
    /\ LET elements == FinalElements(heap, snapshotElements)
           out == [status |-> "returned",
                   value |-> ResultDocument(structureDefinition, elements),
                   error |-> NoError]
       IN /\ snapshotElements' = SortByDepth(heap, snapshotElements)
          /\ outcome' = out
          /\ completed' = Append(completed, Finished(input, out, elements,
                                                  Deref(heap, elements)))
    /\ pc' = "returned"
    /\ UNCHANGED <<repo, heap, calls, input, structureDefinition, resourceType,
                   baseElements, baseAtLoad, idx, lookups, lastStep>>

Next ==
    \/ \E d \in CallDocuments : MissingDifferential(d)
    \/ \E d \in CallDocuments : BaseDefinitionNotFound(d)
    \/ \E d \in CallDocuments : BeginMerge(d)
    \/ UpdateElement
    \/ SynthesizeElement
    \/ ReturnSnapshot

Spec == Init /\ [][Next]_vars

-----------------------------------------------------------------------------
(* Calls in sequence on one generator, each with a document of its own *)

\* the documents of the calls: differentials that update, rename, slice and
\* synthesize, a document without differential, a base that is not held
SequenceDocuments ==
    {WithDifferential(Document(UrlP), l) :
        l \in {<<DiffUpdate>>, <<DiffNoId>>, <<DiffSlice>>, <<DiffRename, DiffWithBase>>}}
    \cup {Document(UrlP), WithDifferential(Document(UrlB), <<DiffUpdate>>)}

NextCalls ==
    \/ \E d \in SequenceDocuments : MissingDifferential(d)
    \/ \E d \in SequenceDocuments : BaseDefinitionNotFound(d)
    \/ \E d \in SequenceDocuments : BeginMerge(d)
    \/ UpdateElement
    \/ SynthesizeElement
    \/ ReturnSnapshot

SpecCalls == Init /\ [][NextCalls]_vars

-----------------------------------------------------------------------------
(* extractResourceType called on its own, as the tests of the private method
   call it: input holds the argument, resourceType the returned string *)

MaxSuffix == 3

\* what precedes the literal: nothing, a host, or the literal itself with a
\* segment of its own
UrlPrefixes == {<<>>, <<"h", "/">>, Marker \o <<"X", "/">>}

\* the literal, the literal in lower case, or nothing
UrlMiddles ==
    {Marker,
     <<"s","t","r","u","c","t","u","r","e","d","e","f","i","n","i","t","i","o","n","/">>,
     <<>>}

\* the characters of the trailing segment: word characters and others
SuffixChars == {"P", "a", "7", "_", "-", "/"}

\* the strings given to extractResourceType, the empty string among them
Urls ==
    {pre \o mid \o suf : pre \in UrlPrefixes, mid \in UrlMiddles,
                         suf \in SeqsUpTo(SuffixChars, MaxSuffix)}

InitExtract ==
    /\ repo = EmptyObject
    /\ heap = <<>>
    /\ pc = "idle"
    /\ calls = 0
    /\ input \in {Document(u) : u \in Urls}
    /\ structureDefinition = EmptyObject
    /\ resourceType = <<>>
    /\ baseElements = <<>>
    /\ baseAtLoad = <<>>
    /\ snapshotElements = <<>>
    /\ idx = 0
    /\ lookups = 0
    /\ lastStep = NoStep
    /\ outcome = NoOutcome
    /\ completed = <<>>

\* the call extractResourceType(baseDefinition)
ExtractResourceType ==
    /\ pc = "idle"
    /\ resourceType' = extractResourceType(input["baseDefinition"][2])
    /\ pc' = "extracted"
    /\ UNCHANGED <<repo, heap, calls, input, structureDefinition, baseElements,
                   baseAtLoad, snapshotElements, idx, lookups, lastStep, outcome,
                   completed>>

NextExtract == ExtractResourceType

SpecExtract == InitExtract /\ [][NextExtract]_vars

-----------------------------------------------------------------------------
(* loadBaseStructureDefinition called on its own, as the tests of the private
   method call it: resourceType holds the argument, baseAtLoad the returned
   list *)

\* a file whose snapshot has no element
FileEmptySnapshot ==
    [exists |-> TRUE, parses |-> TRUE,
     json |-> [name |-> Str(<<"b">>), snapshot |-> Obj(EmptyObject)]]

\* the packages of Repos, and one whose file has a snapshot without element
LoadRepos == Repos \cup {[rt \in {P} |-> FileEmptySnapshot]}

\* the resource types asked for
LoadTypes == {P, <<"B">>, DomainResource}

InitLoad ==
    /\ repo \in LoadRepos
    /\ heap = <<>>
    /\ pc = "idle"
    /\ calls = 0
    /\ input = EmptyObject
    /\ structureDefinition = EmptyObject
    /\ resourceType \in LoadTypes
    /\ baseElements = <<>>
    /\ baseAtLoad = <<>>
    /\ snapshotElements = <<>>
    /\ idx = 0
    /\ lookups = 0
    /\ lastStep = NoStep
    /\ outcome = NoOutcome
    /\ completed = <<>>

\* the call loadBaseStructureDefinition(resourceType)
LoadBaseStructureDefinition ==
    /\ pc = "idle"
    /\ baseAtLoad' = loadBaseStructureDefinition(repo, resourceType)
    /\ lookups' = lookups + 1
    /\ pc' = "loaded"
    /\ UNCHANGED <<repo, heap, calls, input, structureDefinition, resourceType,
                   baseElements, snapshotElements, idx, lastStep, outcome,
                   completed>>

NextLoad == LoadBaseStructureDefinition

SpecLoad == InitLoad /\ [][NextLoad]_vars

-----------------------------------------------------------------------------
(* mergeElementDefinition called on its own, as the tests of the private
   method call it: heap[1] is baseElement, heap[2] is diffElement *)

\* the fields replaced as whole units
UnitKeys == {"type", "binding", "slicing", "extension"}

\* the value a base element has under a unit key
OldUnit ==
    [k \in UnitKeys |->
        CASE k = "type" -> Arr(<<Obj([code |-> Str(<<"T">>)]), Obj([code |-> Str(<<"V">>)])>>)
          [] k = "binding" -> Obj([strength |-> Str(<<"r">>), valueSet |-> Str(<<"v">>)])
          [] k = "slicing" -> Obj([rules |-> Str(<<"o">>), ordered |-> Num(1)])
          [] k = "extension" -> Arr(<<Obj([url |-> Str(<<"u">>)])>>)]

\* the value a differential element has under a unit key
NewUnit ==
    [k \in UnitKeys |->
        CASE k = "type" -> Arr(<<Obj([code |-> Str(<<"U">>)])>>)
          [] k = "binding" -> Obj([strength |-> Str(<<"e">>)])
          [] k = "slicing" -> Obj([rules |-> Str(<<"c">>)])
          [] k = "extension" -> Arr(<<Obj([url |-> Str(<<"w">>)])>>)]

\* base elements with any of the unit keys
MergeBases ==
    {[k \in {"id", "path", "min", "max"} \cup keys |->
        CASE k = "id" -> Str(P_a)
          [] k = "path" -> Str(P_a)
          [] k = "min" -> Num(0)
          [] k = "max" -> Star
          [] OTHER -> OldUnit[k]] : keys \in SUBSET UnitKeys}

\* differential elements with any of the unit keys, and with a type that is
\* the empty array or undefined
MergeDiffs ==
    LET plain == {[k \in {"path", "min"} \cup keys |->
                     CASE k = "path" -> Str(P_a)
                       [] k = "min" -> Num(1)
                       [] OTHER -> NewUnit[k]] : keys \in SUBSET UnitKeys}
    IN plain
       \cup {Put(d, "type", Arr(<<>>)) : d \in plain}
       \cup {Put(d, "type", Undefined) : d \in plain}

InitMerge ==
    /\ repo = EmptyObject
    /\ heap \in {<<b, d>> : b \in MergeBases, d \in MergeDiffs}
    /\ pc = "idle"
    /\ calls = 0
    /\ input = EmptyObject
    /\ structureDefinition = EmptyObject
    /\ resourceType = <<>>
    /\ baseElements = <<>>
    /\ baseAtLoad = <<>>
    /\ snapshotElements = <<1>>
    /\ idx = 0
    /\ lookups = 0
    /\ lastStep = NoStep
    /\ outcome = NoOutcome
    /\ completed = <<>>

\* the call mergeElementDefinition(baseElement, diffElement)
MergeElementDefinition ==
    /\ pc = "idle"
    /\ heap' = [heap EXCEPT ![1] = mergeElementDefinition(heap[1], heap[2])]
    /\ lastStep' = [kind |-> "update", diff |-> heap[2], target |-> 1,
                    listBefore |-> snapshotElements, heapBefore |-> heap]
    /\ pc' = "merged"
    /\ UNCHANGED <<repo, calls, input, structureDefinition, resourceType,
                   baseElements, baseAtLoad, snapshotElements, idx, lookups,
                   outcome, completed>>

NextMerge == MergeElementDefinition

SpecMerge == InitMerge /\ [][NextMerge]_vars

-----------------------------------------------------------------------------
(* Properties *)

Returned == outcome.status = "returned"
Thrown == outcome.status = "thrown"

\* the element list of the returned document, as addresses
ReturnedElements == outcome.value["snapshot"][2]["element"][2]

\* the set of members of a sequence
Members(list) == {list[i] : i \in 1..Len(list)}

\* the path string of the i-th element of the returned document
ReturnedPath(i) == heap[ReturnedElements[i]]["path"][2]

\* the last pass of the loop handled a differential element
Stepped == lastStep.kind # "none"

\* the working-list objects before the last pass of the loop
ObjectsBefore == Deref(lastStep.heapBefore, lastStep.listBefore)

\* C1: a returned document has a snapshot field holding the element list
\* (every element of the working list, once each) and no differential key.
C1_SnapshotOnly ==
    Returned =>
        /\ "differential" \notin DOMAIN outcome.value
        /\ "snapshot" \in DOMAIN outcome.value
        /\ DOMAIN outcome.value["snapshot"][2] = {"element"}
        /\ Len(ReturnedElements) = Len(snapshotElements)
        /\ Members(ReturnedElements) = Members(snapshotElements)

\* C1 witness: a call returned for an input that held a differential with
\* elements and a stale snapshot as well
C1_Witness ==
    /\ Returned
    /\ "snapshot" \in DOMAIN input
    /\ Len(DifferentialElements(input)) > 0
    /\ Len(ReturnedElements) > 1

\* C2 (as claimed): the returned elements are in ascending depth, and among
\* equal depths in ascending path order (path(e1) <= path(e2) as strings).
C2_DepthThenPathOrder ==
    Returned =>
        \A i \in 1..(Len(ReturnedElements) - 1) :
            /\ Depth(ReturnedPath(i)) <= Depth(ReturnedPath(i + 1))
            /\ Depth(ReturnedPath(i)) = Depth(ReturnedPath(i + 1))
                  => ~CodeUnitLess(ReturnedPath(i + 1), ReturnedPath(i))

\* C3 (as claimed): the first returned element's path is the resource type
\* extracted from baseDefinition, whatever the differential holds.
C3_FirstPathIsResourceType ==
    Returned =>
        /\ resourceType = extractResourceType(input["baseDefinition"][2])
        /\ ReturnedPath(1) = resourceType

\* C4: after an update of B by D every field of D with a defined value has
\* D's value on B, and the working list has as many elements as before.
C4_UpdateOverwrites ==
    lastStep.kind = "update" =>
        /\ \A k \in DOMAIN lastStep.diff :
              lastStep.diff[k] # Undefined
                 => /\ k \in DOMAIN heap[lastStep.target]
                    /\ heap[lastStep.target][k] = lastStep.diff[k]
        /\ Len(snapshotElements) = Len(lastStep.listBefore)

\* C4 witness: base {min 0, max "*"} updated by {min 1, max "1", short "x"}
C4_Witness ==
    /\ lastStep.kind = "update"
    /\ lastStep.diff = DiffUpdate
    /\ lastStep.heapBefore[lastStep.target]["min"] = Num(0)
    /\ lastStep.heapBefore[lastStep.target]["max"] = Star
    /\ heap[lastStep.target]["min"] = Num(1)
    /\ heap[lastStep.target]["max"] = One
    /\ heap[lastStep.target]["short"] = Str(<<"x">>)

\* D matches no working-list element: none has an id strictly equal to D's
\* (the comparison el.id === D.id of the code) and none has D's path while D
\* has no sliceName
MatchesNothing(D, objects) ==
    \A i \in 1..Len(objects) :
        /\ Get(objects[i], "id") # Get(D, "id")
        /\ ~(Get(objects[i], "path") = Get(D, "path") /\ ~Truthy(Get(D, "sliceName")))

C6_SliceAlwaysSynthesized ==
    (/\ Stepped
     /\ Truthy(Get(lastStep.diff, "sliceName"))
     /\ \E i \in 1..Len(ObjectsBefore) :
           /\ Get(ObjectsBefore[i], "path") = Get(lastStep.diff, "path")
           /\ ~Truthy(Get(ObjectsBefore[i], "sliceName")))
    => /\ lastStep.kind = "synthesize"
       /\ Len(snapshotElements) = Len(lastStep.listBefore) + 1
       /\ \A a \in Members(lastStep.listBefore) : heap[a] = lastStep.heapBefore[a]

\* the document lacks differential, or its differential lacks element
LacksDifferentialElement(doc) ==
    \/ "differential" \notin DOMAIN doc
    \/ doc["differential"] = Undefined
    \/ "element" \notin DOMAIN doc["differential"][2]
    \/ doc["differential"][2]["element"] = Undefined

\* C7: a document lacking differential or differential.element makes the
\* call fail with the missing-differential error before any lookup.
C7_MissingDifferentialFirst ==
    (calls > 0 /\ LacksDifferentialElement(input)) =>
        /\ pc = "thrown"
        /\ Thrown
        /\ outcome.error.kind = "MissingDifferential"
        /\ lookups = 0

\* C7 witness: the call failed for a document whose differential is present
\* and has no element list
C7_Witness ==
    /\ Thrown
    /\ outcome.error.kind = "MissingDifferential"
    /\ "differential" \in DOMAIN input
    /\ input["differential"] # Undefined
    /\ lookups = 0

\* the resource type named by the baseDefinition URLs of Documents
NamedType(url) ==
    CASE url = UrlP -> P
      [] url = UrlB -> <<"B">>
      [] url = UrlDash -> DomainResource
      [] url = UrlNone -> DomainResource

\* the element list the package holds for a resource type
HeldElements(rt) ==
    IF rt \in DOMAIN repo /\ repo[rt].exists /\ repo[rt].parses
       /\ "snapshot" \in DOMAIN repo[rt].json
    THEN repo[rt].json["snapshot"][2]["element"][2]
    ELSE <<>>

\* C8: with differential.element present, the call fails with the
\* base-definition-not-found error carrying the resource type exactly when
\* the base list is empty or its first path is not the resource type.
C8_BaseNotFound ==
    (calls > 0 /\ ~LacksDifferentialElement(input)) =>
        LET rt == NamedType(input["baseDefinition"][2])
            list == HeldElements(rt)
            unusable == list = <<>> \/ list[1]["path"] # Str(rt)
        IN /\ unusable =>
                /\ Thrown
                /\ outcome.error.kind = "BaseDefinitionNotFound"
                /\ outcome.error.resourceType = rt
           /\ ~unusable => outcome.error.kind # "BaseDefinitionNotFound"

\* C8 witness: the error names DomainResource for an unrecognized URL, and a
\* non-empty list with a wrong first path was refused
C8_Witness ==
    /\ Thrown
    /\ outcome.error.kind = "BaseDefinitionNotFound"
    /\ \/ /\ outcome.error.resourceType = DomainResource
          /\ input["baseDefinition"][2] = UrlNone
       \/ /\ outcome.error.resourceType = P
          /\ Len(HeldElements(P)) > 0

\* C9: two calls given structurally identical documents against the same
\* base elements end the same way with the same snapshot.element sequence.
C9_Deterministic ==
    \A i, j \in 1..Len(completed) :
        completed[i].input = completed[j].input =>
            /\ completed[i].status = completed[j].status
            /\ completed[i].error = completed[j].error
            /\ completed[i].elements = completed[j].elements

\* C9 witness: two calls on the same document returned, the merge having
\* updated and synthesized elements
C9_Witness ==
    /\ Len(completed) = 2
    /\ completed[1].input = completed[2].input
    /\ completed[2].status = "returned"
    /\ Len(completed[2].elements) > Len(baseAtLoad)
    /\ \E i \in 1..Len(baseAtLoad) : completed[2].elements[i] # baseAtLoad[i]

\* C10: the base elements returned by the lookup keep their field values and
\* the base list its length throughout the merge.
C10_BaseNotMutated ==
    pc \in {"merging", "returned"} =>
        /\ Len(baseElements) = Len(baseAtLoad)
        /\ Deref(heap, baseElements) = baseAtLoad

\* C10 witness: an update changed a working-list element that is the copy of
\* a base element
C10_Witness ==
    /\ lastStep.kind = "update"
    /\ \E i \in 1..Len(baseElements) :
          /\ lastStep.listBefore[i] = lastStep.target
          /\ heap[lastStep.target] # baseAtLoad[i]
          /\ heap[baseElements[i]] = baseAtLoad[i]

\* the first working-list element (before the last pass) that has D's path,
\* D having no sliceName: the target of rule 2, or 0 when there is none
PathRuleTarget(D) ==
    IF Truthy(Get(D, "sliceName")) THEN 0
    ELSE LET at == {i \in 1..Len(ObjectsBefore) :
                       Get(ObjectsBefore[i], "path") = Get(D, "path")}
         IN IF at = {} THEN 0
            ELSE lastStep.listBefore[CHOOSE i \in at : \A j \in at : i <= j]

\* C11 (as claimed): a differential element without an id is never matched by
\* the id rule: it updates the target of the path rule when there is one, and
\* is synthesized otherwise.
C11_NoIdNeverMatchedById ==
    (Stepped /\ Get(lastStep.diff, "id") = Undefined) =>
        IF PathRuleTarget(lastStep.diff) # 0
        THEN /\ lastStep.kind = "update"
             /\ lastStep.target = PathRuleTarget(lastStep.diff)
        ELSE lastStep.kind = "synthesize"

\* the first working-list element (before the last pass) whose id is D's id,
\* or 0 when there is none
IdRuleTarget(D) ==
    LET at == {i \in 1..Len(ObjectsBefore) :
                  Get(ObjectsBefore[i], "id") = Get(D, "id")}
    IN IF at = {} THEN 0
       ELSE lastStep.listBefore[CHOOSE i \in at : \A j \in at : i <= j]

\* C12: for a differential element D that has an id, the target is the first
\* element in list order with D's id when there is one (whatever element has
\* D's path); only when no element has D's id is it the first element in
\* list order with D's path, D having no sliceName; with neither, D is
\* synthesized.
C12_IdThenPathFirstMatch ==
    (Stepped /\ Get(lastStep.diff, "id") # Undefined) =>
        IF IdRuleTarget(lastStep.diff) # 0
        THEN /\ lastStep.kind = "update"
             /\ lastStep.target = IdRuleTarget(lastStep.diff)
        ELSE IF PathRuleTarget(lastStep.diff) # 0
        THEN /\ lastStep.kind = "update"
             /\ lastStep.target = PathRuleTarget(lastStep.diff)
        ELSE lastStep.kind = "synthesize"

\* C12 witness: D has an id no element has and two elements have D's path;
\* the first of them was updated, and it had got that path from an earlier
\* update that found it by id although the second had the path
C12_Witness ==
    /\ lastStep.kind = "update"
    /\ Get(lastStep.diff, "id") # Undefined
    /\ IdRuleTarget(lastStep.diff) = 0
    /\ Len(lastStep.listBefore) = 2
    /\ lastStep.target = lastStep.listBefore[1]
    /\ Get(ObjectsBefore[1], "path") = Get(lastStep.diff, "path")
    /\ Get(ObjectsBefore[2], "path") = Get(lastStep.diff, "path")
    /\ Get(ObjectsBefore[1], "id") = Str(P)
    /\ heap[lastStep.listBefore[2]] = ObjectsBefore[2]

\* the number of word characters at the end of s
TrailingWordLen(s) ==
    CHOOSE n \in 0..Len(s) :
        /\ \A j \in (Len(s) - n + 1)..Len(s) : IsWordChar(s[j])
        /\ n = Len(s) \/ ~IsWordChar(s[Len(s) - n])

\* s ends with "StructureDefinition/" followed by one or more word characters
EndsWithTypeSegment(s) ==
    LET n == TrailingWordLen(s)
    IN /\ n >= 1
       /\ Len(s) - n >= Len(Marker)
       /\ SubSeq(s, Len(s) - n - Len(Marker) + 1, Len(s) - n) = Marker

\* C13: extractResourceType returns the trailing segment of word characters
\* when the string ends with "StructureDefinition/" followed by that segment,
\* and "DomainResource" for every other string, the empty string included.
C13_ExtractResourceType ==
    pc = "extracted" =>
        LET s == input["baseDefinition"][2]
        IN resourceType =
              IF EndsWithTypeSegment(s)
              THEN SubSeq(s, Len(s) - TrailingWordLen(s) + 1, Len(s))
              ELSE DomainResource

\* C13 witness: the literal occurs twice and the segment after the second,
\* made of a letter, an underscore and a digit, was returned
C13_Witness ==
    /\ pc = "extracted"
    /\ input["baseDefinition"][2] = Marker \o <<"X", "/">> \o Marker \o <<"P", "_", "7">>
    /\ resourceType = <<"P", "_", "7">>

\* the package has a readable file for the resource type whose snapshot has
\* an element list
HoldsElementList(rt) ==
    /\ rt \in DOMAIN repo
    /\ repo[rt].exists
    /\ repo[rt].parses
    /\ "snapshot" \in DOMAIN repo[rt].json
    /\ "element" \in DOMAIN repo[rt].json["snapshot"][2]

\* C14: loadBaseStructureDefinition returns the empty sequence when the
\* package has no file for the resource type, when reading the file throws and
\* when the file has no snapshot element list; otherwise it returns the
\* file's snapshot element list as it is.
C14_LoadNeverRaises ==
    pc = "loaded" =>
        /\ lookups = 1
        /\ ~HoldsElementList(resourceType) => baseAtLoad = <<>>
        /\ HoldsElementList(resourceType) =>
              baseAtLoad = repo[resourceType].json["snapshot"][2]["element"][2]

\* C14 witness: a file exists for the resource type, reading it threw, and
\* the call returned the empty sequence
C14_Witness ==
    /\ pc = "loaded"
    /\ resourceType = P
    /\ repo = [rt \in {P} |-> FileUnreadable]
    /\ baseAtLoad = <<>>

\* C15: a call ends either returned, with a document whose snapshot holds
\* the whole working list after every differential element was handled and
\* with no error, or thrown, with an error and no document; nothing is
\* returned while the merge runs, and the package is looked up at most once
\* per call.
C15_ReturnOrThrow ==
    /\ lookups <= 1
    /\ pc \in {"returned", "thrown"} <=> outcome.status \in {"returned", "thrown"}
    /\ pc = "merging" => outcome = NoOutcome
    /\ Thrown =>
          /\ pc = "thrown"
          /\ outcome.error.kind \in {"MissingDifferential", "BaseDefinitionNotFound"}
          /\ outcome.value = EmptyObject
          /\ completed[Len(completed)].elements = <<>>
    /\ Returned =>
          /\ pc = "returned"
          /\ outcome.error = NoError
          /\ lookups = 1
          /\ idx = Len(DifferentialElements(input)) + 1
          /\ Len(ReturnedElements) = Len(snapshotElements)
          /\ Len(ReturnedElements) >= Len(baseAtLoad)

\* C15 witness: reading the base file threw; the call failed after that one
\* lookup, with no document
C15_Witness ==
    /\ Thrown
    /\ outcome.error.kind = "BaseDefinitionNotFound"
    /\ repo = [rt \in {P} |-> FileUnreadable]
    /\ lookups = 1
    /\ outcome.value = EmptyObject

\* C16: the returned document has every top-level field of the input other
\* than differential and snapshot, with the input's value, and has no
\* top-level field the input lacks other than snapshot.
C16_DocumentFrame ==
    Returned =>
        /\ \A k \in DOMAIN input \ {"differential", "snapshot"} :
              /\ k \in DOMAIN outcome.value
              /\ outcome.value[k] = input[k]
        /\ DOMAIN outcome.value \subseteq DOMAIN input \cup {"snapshot"}

\* C16 witness: a document with name, baseDefinition and differential was
\* returned with name, baseDefinition and snapshot
C16_Witness ==
    /\ Returned
    /\ DOMAIN input = {"name", "baseDefinition", "differential"}
    /\ DOMAIN outcome.value = {"name", "baseDefinition", "snapshot"}
    /\ outcome.value["name"] = Str(<<"n">>)
    /\ outcome.value["baseDefinition"] = Str(UrlP)

RECURSIVE ApplyAlone(_, _)
\* the working list w = [h, list] after the differential elements diffs were
\* handled one after the other, nothing else having touched it
ApplyAlone(w, diffs) ==
    IF diffs = <<>> THEN w
    ELSE LET D == Head(diffs)
             existing == ExistingElement(w.h, w.list, D)
         IN IF existing # 0
            THEN ApplyAlone([h |-> [w.h EXCEPT ![existing] =
                                       mergeElementDefinition(w.h[existing], D)],
                             list |-> w.list],
                            Tail(diffs))
            ELSE ApplyAlone([h |-> Append(w.h, NewElement(D)),
                             list |-> Append(w.list, Len(w.h) + 1)],
                            Tail(diffs))

\* how a call with document d ends on a generator that made no other call
Alone(d) ==
    IF LacksDifferentialElement(d)
    THEN [status |-> "thrown",
          error |-> [kind |-> "MissingDifferential", resourceType |-> <<>>],
          elements |-> <<>>]
    ELSE LET rt == extractResourceType(d["baseDefinition"][2])
             base == loadBaseStructureDefinition(repo, rt)
         IN IF ~BaseFound(base, rt)
            THEN [status |-> "thrown",
                  error |-> [kind |-> "BaseDefinitionNotFound", resourceType |-> rt],
                  elements |-> <<>>]
            ELSE LET w == ApplyAlone([h |-> [i \in 1..Len(base) |-> CloneElement(base[i])],
                                      list |-> [i \in 1..Len(base) |-> i]],
                                     d["differential"][2]["element"][2])
                 IN [status |-> "returned", error |-> NoError,
                     elements |-> Deref(w.h, FinalElements(w.h, w.list))]

\* C17: every finished call of a sequence ended as it would have ended alone,
\* and the elements an earlier call returned still have the values they had
\* when it returned.
C17_NoSharedState ==
    \A i \in 1..Len(completed) :
        /\ completed[i].status = Alone(completed[i].input).status
        /\ completed[i].error = Alone(completed[i].input).error
        /\ completed[i].elements = Alone(completed[i].input).elements
        /\ Deref(heap, completed[i].refs) = completed[i].elements

\* C17 witness: a call that returned was followed by a call with another
\* document that returned other elements
C17_Witness ==
    /\ Len(completed) = 2
    /\ completed[1].status = "returned"
    /\ completed[2].status = "returned"
    /\ completed[1].input # completed[2].input
    /\ completed[1].elements # completed[2].elements
    /\ lastStep.kind = "update"

\* the returned element at address a carries a base record {path, min, max}
CarriesBase(a) ==
    /\ "base" \in DOMAIN heap[a]
    /\ heap[a]["base"][1] = "object"
    /\ {"path", "min", "max"} \subseteq DOMAIN heap[a]["base"][2]

\* the working-list object that is the copy of the i-th base element: the
\* copies are allocated right after the base elements, in their order
CopyOfBase(i) == baseElements[i] + Len(baseElements)

\* the addresses of the copies of the base elements
BaseCopies == {CopyOfBase(i) : i \in 1..Len(baseElements)}

\* C18 (as claimed): every element of the returned snapshot carries a base
\* record {path, min, max}.
C18_EveryElementCarriesBase ==
    Returned => \A a \in Members(ReturnedElements) : CarriesBase(a)

\* C18 (amended): every returned element that was synthesized from a
\* differential element carries a base record {path, min, max}; the copy of
\* a base element carries one exactly when the base element did, unless a
\* differential element that has a base of its own was merged.
C18_SynthesizedCarryBase ==
    Returned =>
        /\ \A a \in Members(ReturnedElements) \ BaseCopies : CarriesBase(a)
        /\ (\A j \in 1..Len(DifferentialElements(input)) :
               "base" \notin DOMAIN DifferentialElements(input)[j])
           => \A i \in 1..Len(baseElements) :
                 "base" \in DOMAIN heap[CopyOfBase(i)] <=> "base" \in DOMAIN baseAtLoad[i]

\* C18 witness: the returned snapshot holds a synthesized element with a
\* base record next to the copy of a base element that has none
C18_Witness ==
    /\ Returned
    /\ \E a \in Members(ReturnedElements) \ BaseCopies : CarriesBase(a)
    /\ \E a \in Members(ReturnedElements) \cap BaseCopies : "base" \notin DOMAIN heap[a]
    /\ \E a \in Members(ReturnedElements) \cap BaseCopies : "base" \in DOMAIN heap[a]

\* the target of the last update as it was before the update
TargetBefore == lastStep.heapBefore[lastStep.target]

\* the target of the last update as it is
TargetAfter == heap[lastStep.target]

\* C19: an update of B by D leaves every field of B that is not a key of D
\* as it was, adds no field that is not a key of D, and leaves every other
\* element of the working list as it was; when D has no base, B has a base
\* after the update exactly when it had one before, with the same value.
C19_UpdateFrame ==
    lastStep.kind = "update" =>
        /\ \A k \in DOMAIN TargetBefore \ DOMAIN lastStep.diff :
              /\ k \in DOMAIN TargetAfter
              /\ TargetAfter[k] = TargetBefore[k]
        /\ DOMAIN TargetAfter \subseteq DOMAIN TargetBefore \cup DOMAIN lastStep.diff
        /\ \A a \in Members(lastStep.listBefore) \ {lastStep.target} :
              heap[a] = lastStep.heapBefore[a]
        /\ Members(snapshotElements) = Members(lastStep.listBefore)
        /\ "base" \notin DOMAIN lastStep.diff =>
              Get(TargetAfter, "base") = Get(TargetBefore, "base")

\* C19 witness: of two elements the one without a base was updated by a
\* differential element without a base and has none afterwards; the other
\* element carries a type and a base the differential element does not name
C19_Witness ==
    /\ lastStep.kind = "update"
    /\ Len(lastStep.listBefore) = 2
    /\ "base" \notin DOMAIN lastStep.diff
    /\ "base" \notin DOMAIN TargetBefore
    /\ "base" \notin DOMAIN TargetAfter
    /\ TargetAfter # TargetBefore
    /\ \E a \in Members(lastStep.listBefore) \ {lastStep.target} :
          {"type", "base"} \subseteq DOMAIN heap[a]

\* C20 (as claimed): after an update of B by D, B.path is D.path; B.id is
\* D.id when D's id is defined and B's previous id when D's id is absent or
\* undefined; every field whose value in D is undefined is as it was on B.
C20_UndefinedSkipped ==
    lastStep.kind = "update" =>
        /\ Get(TargetAfter, "path") = Get(lastStep.diff, "path")
        /\ Get(lastStep.diff, "id") # Undefined =>
              Get(TargetAfter, "id") = Get(lastStep.diff, "id")
        /\ Get(lastStep.diff, "id") = Undefined =>
              Get(TargetAfter, "id") = Get(TargetBefore, "id")
        /\ \A k \in DOMAIN lastStep.diff :
              lastStep.diff[k] = Undefined =>
                  Get(TargetAfter, k) = Get(TargetBefore, k)

\* C21: when D has a defined value under type, binding, slicing or
\* extension, the target's field is D's value after the update, whatever the
\* target had there: nothing of the previous value is kept.
C21_WholesaleReplacement ==
    lastStep.kind = "update" =>
        \A k \in {"type", "binding", "slicing", "extension"} \cap DOMAIN lastStep.diff :
            lastStep.diff[k] # Undefined =>
                /\ k \in DOMAIN TargetAfter
                /\ TargetAfter[k] = lastStep.diff[k]

\* C21 witness: the target had two types and a binding with a valueSet; D
\* has one other type and a binding without valueSet; the target has D's
C21_Witness ==
    /\ pc = "merged"
    /\ {"type", "binding"} \subseteq DOMAIN TargetBefore
    /\ {"type", "binding"} \subseteq DOMAIN lastStep.diff
    /\ Len(TargetBefore["type"][2]) = 2
    /\ "valueSet" \in DOMAIN TargetBefore["binding"][2]
    /\ TargetAfter["type"] = Arr(<<Obj([code |-> Str(<<"U">>)])>>)
    /\ TargetAfter["binding"] = Obj([strength |-> Str(<<"e">>)])
    /\ TargetAfter["type"] = lastStep.diff["type"]

\* the differential element handled by the last pass of the loop, and the one
\* handled by the pass before it
LastDiffIndex == idx - 1

PrecedingDiff == heap[DifferentialElements(structureDefinition)[LastDiffIndex - 1]]

\* the element the lookup selects in the working list as it was before the
\* last pass: the first with D's id, else the first with D's path; 0 if none
FirstMatch(D) ==
    IF IdRuleTarget(D) # 0 THEN IdRuleTarget(D) ELSE PathRuleTarget(D)

\* the last pass followed a pass that synthesized the last element of the
\* working list from the preceding differential element
FollowsSynthesis ==
    /\ Stepped
    /\ LastDiffIndex >= 2
    /\ Len(lastStep.listBefore) > Len(baseElements)
    /\ lastStep.listBefore[Len(lastStep.listBefore)] \notin BaseCopies
    /\ ObjectsBefore[Len(ObjectsBefore)] = NewElement(PrecedingDiff)

\* C22 (as claimed): when D1 was synthesized and the next entry D2 has D1's
\* id, or has D1's path and no sliceName while no element has D2's id, D2
\* updates the element created from D1 and its defined fields win.
C22_LaterEntryUpdatesSynthesized ==
    (/\ FollowsSynthesis
     /\ \/ /\ Get(lastStep.diff, "id") # Undefined
           /\ Get(lastStep.diff, "id") = Get(PrecedingDiff, "id")
        \/ /\ IdRuleTarget(lastStep.diff) = 0
           /\ Get(lastStep.diff, "path") = Get(PrecedingDiff, "path")
           /\ ~Truthy(Get(lastStep.diff, "sliceName")))
    => /\ lastStep.kind = "update"
       /\ lastStep.target = lastStep.listBefore[Len(lastStep.listBefore)]
       /\ \A k \in DOMAIN lastStep.diff :
             lastStep.diff[k] # Undefined => Get(TargetAfter, k) = lastStep.diff[k]

\* C22 (amended): the entries are handled in input order, each by an update
\* or by a synthesis; the lookup scans the working list as the earlier
\* entries left it, and whenever the first element it selects is one that
\* was synthesized in this pass, the entry updates that element, creates no
\* other, and its defined fields win.
C22_RescanFirstMatch ==
    Stepped =>
        /\ lastStep.kind \in {"update", "synthesize"}
        /\ LastDiffIndex \in 1..Len(DifferentialElements(input))
        /\ lastStep.diff = DifferentialElements(input)[LastDiffIndex]
        /\ (FirstMatch(lastStep.diff) # 0 /\ FirstMatch(lastStep.diff) \notin BaseCopies)
           => /\ lastStep.kind = "update"
              /\ lastStep.target = FirstMatch(lastStep.diff)
              /\ Len(snapshotElements) = Len(lastStep.listBefore)
              /\ \A k \in DOMAIN lastStep.diff :
                    lastStep.diff[k] # Undefined => Get(TargetAfter, k) = lastStep.diff[k]

\* C22 witness: the first entry was synthesized and the second, with an id
\* no element has, the same path and other values, updated the element
\* created from it
C22_Witness ==
    /\ FollowsSynthesis
    /\ lastStep.kind = "update"
    /\ lastStep.target = lastStep.listBefore[Len(lastStep.listBefore)]
    /\ Get(lastStep.diff, "id") # Undefined
    /\ IdRuleTarget(lastStep.diff) = 0
    /\ Get(lastStep.diff, "path") = Get(PrecedingDiff, "path")
    /\ TargetAfter["min"] = lastStep.diff["min"]
    /\ TargetAfter["min"] # TargetBefore["min"]

\* the working list as the loop left it, before the ordering pass: the copies
\* of the base elements in base order, then the synthesized elements in the
\* order of their creation
ListBeforeSort ==
    IF lastStep.kind = "synthesize" THEN Append(lastStep.listBefore, lastStep.target)
    ELSE IF lastStep.kind = "update" THEN lastStep.listBefore
    ELSE [i \in 1..Len(baseElements) |-> CopyOfBase(i)]

\* the position of the object a in a list that holds it once
PositionIn(list, a) == CHOOSE k \in 1..Len(list) : list[k] = a

\* C23: two returned elements with the same path stand in the returned
\* snapshot in the order in which they stood in the working list before the
\* ordering pass.
C23_StableOrder ==
    Returned =>
        /\ Members(ReturnedElements) = Members(ListBeforeSort)
        /\ \A i, j \in 1..Len(ReturnedElements) :
              (i < j /\ ReturnedPath(i) = ReturnedPath(j))
                 => PositionIn(ListBeforeSort, ReturnedElements[i])
                       < PositionIn(ListBeforeSort, ReturnedElements[j])

\* C23 witness: a base element and a slice synthesized on its path were
\* returned next to an element with another path, the base element first
C23_Witness ==
    /\ Returned
    /\ Len(ReturnedElements) >= 3
    /\ \E i, j \in 1..Len(ReturnedElements) :
          /\ i < j
          /\ ReturnedPath(i) = ReturnedPath(j)
          /\ ReturnedElements[i] \in BaseCopies
          /\ ReturnedElements[j] \notin BaseCopies
          /\ "sliceName" \in DOMAIN heap[ReturnedElements[j]]

\* C24: once a call was made, whether it runs, has returned or has thrown,
\* the document the caller holds has the top-level fields it was given, its
\* differential among them, and its differential elements are the same
\* objects in the same order with the field values they were given.
C24_InputNotModified ==
    calls > 0 =>
        /\ DOMAIN structureDefinition = DOMAIN input
        /\ \A k \in DOMAIN input \ {"differential"} : structureDefinition[k] = input[k]
        /\ LacksDifferentialElement(input) => structureDefinition = input
        /\ ~LacksDifferentialElement(input) =>
              /\ DOMAIN structureDefinition["differential"][2] = {"element"}
              /\ Deref(heap, DifferentialElements(structureDefinition))
                    = DifferentialElements(input)

\* C24 witness: a call returned after it updated an element from the first
\* differential element and synthesized one from the second; the caller's
\* document still holds both
C24_Witness ==
    /\ Returned
    /\ lastStep.kind = "synthesize"
    /\ Len(DifferentialElements(input)) = 2
    /\ Len(ReturnedElements) = Len(baseElements) + 1
    /\ "differential" \in DOMAIN structureDefinition
    /\ "differential" \notin DOMAIN outcome.value
    /\ Deref(heap, DifferentialElements(structureDefinition)) = DifferentialElements(input)

\* C25: the working list starts with as many elements as the base list; an
\* update leaves its length, a synthesis adds one; the returned list is a
\* permutation of it, so its length is the base length plus the number of
\* synthesized elements, at most the base length plus the differential's.
C25_ElementCount ==
    pc \in {"merging", "returned"} =>
        /\ Len(snapshotElements) >= Len(baseElements)
        /\ Len(snapshotElements) <= Len(baseElements) + (idx - 1)
        /\ idx - 1 <= Len(DifferentialElements(input))
        /\ lastStep.kind = "update" => Len(snapshotElements) = Len(lastStep.listBefore)
        /\ lastStep.kind = "synthesize" =>
              Len(snapshotElements) = Len(lastStep.listBefore) + 1
        /\ Returned =>
              /\ Len(ReturnedElements) = Len(ListBeforeSort)
              /\ Members(ReturnedElements) = Members(ListBeforeSort)
              /\ Cardinality(Members(ReturnedElements)) = Len(ReturnedElements)
              /\ Len(ReturnedElements)
                    = Len(baseAtLoad) + Cardinality(Members(ListBeforeSort) \ BaseCopies)
              /\ Len(ReturnedElements) >= Len(baseAtLoad)
              /\ Len(ReturnedElements)
                    <= Len(baseAtLoad) + Len(DifferentialElements(input))

\* C25 witness: two base elements and two differential elements, the first
\* synthesized and the second an update, gave three returned elements
C25_Witness ==
    /\ Returned
    /\ Len(baseAtLoad) = 2
    /\ Len(DifferentialElements(input)) = 2
    /\ lastStep.kind = "update"
    /\ Len(ReturnedElements) = 3

\* the elements the generator of the command line (snapshotGenerator.ts)
\* returns for the working list the loop left: the same objects in the order
\* of its sort
CliReturnedElements == CliFinalElements(heap, ListBeforeSort)

\* C26 (as claimed): for the same document and base elements the two
\* variants return the same snapshot.element sequence, element by element
\* and in the same order.
C26_VariantsEquivalent ==
    Returned =>
        /\ Len(ReturnedElements) = Len(CliReturnedElements)
        /\ Deref(heap, ReturnedElements) = Deref(heap, CliReturnedElements)

\* the document has a differential whose element list is present and empty
EmptyDifferential(doc) ==
    /\ "differential" \in DOMAIN doc
    /\ doc["differential"] # Undefined
    /\ "element" \in DOMAIN doc["differential"][2]
    /\ doc["differential"][2]["element"] = Arr(<<>>)

\* the sequences a and b hold the same values the same number of times
SameMultiset(a, b) ==
    /\ Len(a) = Len(b)
    /\ \E f \in Permutations(1..Len(a)) : \A i \in 1..Len(a) : a[i] = b[f[i]]

\* C27: a call with an empty differential.element does not fail for a
\* missing differential; when the base list is usable it does not fail at
\* all, and what it returns are the base elements, each with its field
\* values, none added and none removed.
C27_EmptyDifferential ==
    (calls > 0 /\ EmptyDifferential(input)) =>
        LET rt == NamedType(input["baseDefinition"][2])
            list == HeldElements(rt)
            usable == list # <<>> /\ list[1]["path"] = Str(rt)
        IN /\ outcome.error.kind # "MissingDifferential"
           /\ usable => ~Thrown
           /\ Returned =>
                 /\ usable
                 /\ SameMultiset(Deref(heap, ReturnedElements), list)
                 /\ Deref(heap, ReturnedElements) = Deref(heap, FinalElements(heap, baseElements))

\* C27 witness: a call with differential.element = [] returned the two base
\* elements
C27_Witness ==
    /\ Returned
    /\ EmptyDifferential(input)
    /\ Len(ReturnedElements) = 2
    /\ Deref(heap, ReturnedElements) = <<BaseRootNoId, BaseA>>

====
